---- MODULE Spec2Model ----
(***************************************************************************)
(* The TOTP engine of src/framework/security/otp.ts (class OTP) over the   *)
(* configuration store of src/framework/env/env.ts (class Env).            *)
(*                                                                         *)
(* Every method of OTP and Env is synchronous (no await, no callback), so  *)
(* in the single-threaded JavaScript run time a call runs to completion    *)
(* before any other caller's call starts: one action per call.             *)
(*                                                                         *)
(* Text values.  A provisioning string is a sequence of atoms, each either *)
(* the blank " " or a blank-free piece of text; a candidate token is a     *)
(* sequence of UTF-16 code units.  An optional value (undefined / null in  *)
(* the source) is a sequence of length at most one.                        *)
(***************************************************************************)
EXTENDS Integers, Sequences, FiniteSets, TLC

VARIABLES
    cache,       \* Env.cache: snapshot of process.env taken when env.ts loads
    processEnv,  \* process.env, the live backing store
    made,        \* an OTP instance has been constructed
    uri,         \* OTP.uri     (optional)
    envKey,      \* OTP.envKey  (optional)
    totp,        \* OTP.totp    (optional): the cached parsed TOTP object
    now,         \* Date.now(), in ms
    last,        \* the last call on the engine and its outcome
    gen,         \* the last code returned by getCode, with its arguments
    parses,      \* successful resolve-and-parse runs since construction/refresh
    cycle,       \* where the engine is in its refresh cycle
    pinned,      \* the cached object at the moment the backing value changed
    writes,      \* number of writes to process.env so far
    ticks,       \* number of clock advances so far
    resolved,    \* outcome of getUri's last run since construction/refresh
    failed,      \* calls through getTOTP that threw, in a row
    envLast,     \* the last call on Env and its outcome
    passed       \* keys an Env.require call that returned has named

vars == <<cache, processEnv, made, uri, envKey, totp, now, last, gen,
          parses, cycle, pinned, writes, ticks, resolved, failed, envLast,
          passed>>

----------------------------------------------------------------------------
(* Bounds of the model *)

MaxWindow == 2
MaxTicks == 2
MaxEnvWrites == 1
ParseCap == 2
FailCap == 2

(* The wall clock starts in step 3 of a 30 s period and advances by half   *)
(* a period.                                                               *)
NowStart == 3 * 30000
TickMs == 30000 \div 2

----------------------------------------------------------------------------
(* Optional values *)

None == <<>>
Some(v) == <<v>>

----------------------------------------------------------------------------
(* Provisioning strings and the store's key *)

KEY == "HEROKU_OTP_URI"

UriTotp6 == "otpauth://totp/ACME:alice?secret=GEZDGNBVGY3TQOJQGEZDGNBVGY3TQOJQ&issuer=ACME"
UriTotp1 == "otpauth://totp/ACME:alice?secret=GEZDGNBVGY3TQOJQGEZDGNBVGY3TQOJQ&issuer=ACME&digits=1"
UriHotp == "otpauth://hotp/ACME:alice?secret=GEZDGNBVGY3TQOJQGEZDGNBVGY3TQOJQ&counter=0"
UriBadSecret == "otpauth://totp/ACME:alice?secret=0189"
UriBad == "not-an-otpauth-uri"

Secret == "GEZDGNBVGY3TQOJQGEZDGNBVGY3TQOJQ"

Totp6 == [secret |-> Secret, algorithm |-> "SHA1", digits |-> 6, period |-> 30]
Totp1 == [secret |-> Secret, algorithm |-> "SHA1", digits |-> 1, period |-> 30]
Hotp == [secret |-> Secret, algorithm |-> "SHA1", digits |-> 6, counter |-> 0]

(* String.prototype.trim on a sequence of atoms *)
RECURSIVE TrimLeft(_)
TrimLeft(s) ==
    IF s # <<>> /\ Head(s) = " " THEN TrimLeft(Tail(s)) ELSE s

RECURSIVE TrimRight(_)
TrimRight(s) ==
    IF s # <<>> /\ s[Len(s)] = " " THEN TrimRight(SubSeq(s, 1, Len(s) - 1)) ELSE s

Trim(s) == TrimRight(TrimLeft(s))

----------------------------------------------------------------------------
(* Env (src/framework/env/env.ts) *)

(* The cache is a plain object, so a key it does not own is looked up on   *)
(* Object.prototype: these are the names found there.                      *)
InheritedNames ==
    { "constructor", "toString", "toLocaleString", "valueOf",
      "hasOwnProperty", "isPrototypeOf", "propertyIsEnumerable", "__proto__",
      "__defineGetter__", "__defineSetter__", "__lookupGetter__",
      "__lookupSetter__" }

(* The member of Object.prototype of that name: a function, or for         *)
(* __proto__ the prototype object itself. It is written as a pair, where a *)
(* string read from the cache is Some(s) and a missing one is None.        *)
Inherited(key) == << IF key = "__proto__" THEN "object" ELSE "function", key >>

IsInherited(raw) == Len(raw) = 2

(* The lookup of the Env variant that reads process.env at each call. *)
LookupLive(c, key) ==
    IF key \in DOMAIN processEnv /\ processEnv[key] # None THEN processEnv[key]
    ELSE IF key \in InheritedNames THEN Inherited(key)
    ELSE None

(* this.cache[key]: an own property wins, then the prototype chain. *)
Lookup(c, key) ==
    IF key \in DOMAIN c /\ c[key] # None THEN c[key]
    ELSE IF key \in InheritedNames THEN Inherited(key)
    ELSE None

(* Env.get without a parser: required / default / trim. *)
Env_get(c, key, required, defVal, trim) ==
    LET raw == Lookup(c, key) IN
    IF (raw = None \/ raw = Some(<<>>)) /\ ~required
      THEN [threw |-> "", val |-> defVal]
    ELSE IF raw = None \/ raw = Some(<<>>)
      THEN [threw |-> "Missing environment variable", val |-> None]
    ELSE IF IsInherited(raw)
      THEN IF trim
             THEN [threw |-> "TypeError: raw.trim is not a function",
                   val |-> None]
             ELSE [threw |-> "", val |-> raw]
    ELSE [threw |-> "", val |-> Some(IF trim THEN Trim(raw[1]) ELSE raw[1])]

Env_getString(c, key, required, def) == Env_get(c, key, required, def, TRUE)


Env_has(c, key) ==
    LET v == Lookup(c, key) IN v # None /\ v # Some(<<>>)

(* Values Env.get returns: a string, a number, undefined.  A number is   *)
(* an integer n, or m * 10^e with e < 0 and m no multiple of 10, or an     *)
(* infinity with its sign.                                                 *)
Str(s) == [t |-> "string", s |-> s]
Num(n) == [t |-> "number", n |-> n]
NumFraction(m, e) == [t |-> "number", m |-> m, e |-> e]
NumInfinity(sign) == [t |-> "number", inf |-> sign]
Undefined == [t |-> "undefined"]

DigitValue ==
    [a \in {"0", "1", "2", "3", "4", "5", "6", "7", "8", "9"} |->
       CASE a = "0" -> 0 [] a = "1" -> 1 [] a = "2" -> 2 [] a = "3" -> 3
         [] a = "4" -> 4 [] a = "5" -> 5 [] a = "6" -> 6 [] a = "7" -> 7
         [] a = "8" -> 8 [] a = "9" -> 9]

RECURSIVE Decimal(_)
Decimal(s) ==
    IF s = <<>> THEN 0
    ELSE 10 * Decimal(SubSeq(s, 1, Len(s) - 1)) + DigitValue[s[Len(s)]]

(* The digits of the literals with a prefix: 0x, 0o, 0b. *)
HexValue ==
    [a \in DOMAIN DigitValue \cup {"a", "b", "c", "d", "e", "f",
                                   "A", "B", "C", "D", "E", "F"} |->
       CASE a \in DOMAIN DigitValue -> DigitValue[a]
         [] a \in {"a", "A"} -> 10 [] a \in {"b", "B"} -> 11
         [] a \in {"c", "C"} -> 12 [] a \in {"d", "D"} -> 13
         [] a \in {"e", "E"} -> 14 [] a \in {"f", "F"} -> 15]

IsInBase(s, base) ==
    /\ s # <<>>
    /\ \A i \in 1..Len(s) : s[i] \in DOMAIN HexValue /\ HexValue[s[i]] < base

RECURSIVE InBase(_, _)
InBase(s, base) ==
    IF s = <<>> THEN 0
    ELSE base * InBase(SubSeq(s, 1, Len(s) - 1), base) + HexValue[s[Len(s)]]

RECURSIVE TenTo(_)
TenTo(n) == IF n = 0 THEN 1 ELSE 10 * TenTo(n - 1)

(* The first index of s that holds a member of set, 0 when there is none. *)
FirstIndex(s, set) ==
    IF \E i \in 1..Len(s) : s[i] \in set
      THEN CHOOSE i \in 1..Len(s) :
             s[i] \in set /\ \A j \in 1..(i - 1) : s[j] \notin set
      ELSE 0

(* sign * m * 10^e as a number. *)
RECURSIVE Scaled(_, _, _)
Scaled(sign, m, e) ==
    IF e < 0 /\ m % 10 = 0 THEN Scaled(sign, m \div 10, e + 1)
    ELSE IF e >= 0 THEN Num(sign * m * TenTo(e))
    ELSE NumFraction(sign * m, e)

(* StrUnsignedDecimalLiteral with its sign: Infinity, or digits with an    *)
(* optional point and an optional exponent part.  None is NaN.             *)
DecimalLiteral(sign, u) ==
    IF u = <<"I", "n", "f", "i", "n", "i", "t", "y">> THEN Some(NumInfinity(sign))
    ELSE
      LET epos == FirstIndex(u, {"e", "E"})
          mant == IF epos = 0 THEN u ELSE SubSeq(u, 1, epos - 1)
          expo == IF epos = 0 THEN <<>> ELSE SubSeq(u, epos + 1, Len(u))
          esign == IF expo # <<>> /\ expo[1] = "-" THEN 0 - 1 ELSE 1
          edigits == IF expo # <<>> /\ expo[1] \in {"+", "-"}
                       THEN Tail(expo) ELSE expo
          dpos == FirstIndex(mant, {"."})
          ipart == IF dpos = 0 THEN mant ELSE SubSeq(mant, 1, dpos - 1)
          fpart == IF dpos = 0 THEN <<>> ELSE SubSeq(mant, dpos + 1, Len(mant))
          AllDigits(x) == \A i \in 1..Len(x) : x[i] \in DOMAIN DigitValue
      IN
      IF /\ AllDigits(ipart) /\ AllDigits(fpart)
         /\ (ipart # <<>> \/ fpart # <<>>)
         /\ (epos = 0 \/ (edigits # <<>> /\ AllDigits(edigits)))
        THEN Some(Scaled(sign, Decimal(ipart \o fpart),
                         esign * Decimal(edigits) - Len(fpart)))
        ELSE None

(* Number(raw), StringToNumber: blanks around the literal are dropped, the *)
(* empty string is 0, a literal is 0x/0o/0b digits without a sign or a     *)
(* signed decimal literal; None is NaN.  For literals whose digits and     *)
(* value are below 2^31 and need no rounding; -0 is 0.                     *)
ToNumber(s) ==
    LET t == Trim(s)
        body == IF Len(t) > 2 THEN SubSeq(t, 3, Len(t)) ELSE <<>>
    IN
    IF t = <<>> THEN Some(Num(0))
    ELSE IF Len(t) > 2 /\ t[1] = "0" /\ t[2] \in {"x", "X"} /\ IsInBase(body, 16)
      THEN Some(Num(InBase(body, 16)))
    ELSE IF Len(t) > 2 /\ t[1] = "0" /\ t[2] \in {"o", "O"} /\ IsInBase(body, 8)
      THEN Some(Num(InBase(body, 8)))
    ELSE IF Len(t) > 2 /\ t[1] = "0" /\ t[2] \in {"b", "B"} /\ IsInBase(body, 2)
      THEN Some(Num(InBase(body, 2)))
    ELSE IF t[1] = "-" THEN DecimalLiteral(0 - 1, Tail(t))
    ELSE IF t[1] = "+" THEN DecimalLiteral(1, Tail(t))
    ELSE DecimalLiteral(1, t)

(* The parser Env.getNumber passes to Env.get. *)
NumberParser(raw) ==
    LET n == ToNumber(raw) IN
    IF n = None THEN [threw |-> "is not a valid number", val |-> Undefined]
    ELSE [threw |-> "", val |-> n[1]]

(* The same parser on a member of Object.prototype: Number() of a function *)
(* or of the prototype object goes through its string form ("function ..." *)
(* or "[object Object]"), which is no numeric literal, so it is NaN.       *)
NumberParserOfObject(raw) ==
    [threw |-> "is not a valid number", val |-> Undefined]

(* A member of Object.prototype as a returned value. *)
Member(raw) == [t |-> raw[1], name |-> raw[2]]

(* Env.get: parser is "none" (no parser in opts) or "number". *)
Env_getParsed(c, key, required, defVal, trim, parser) ==
    LET raw == Lookup(c, key) IN
    IF (raw = None \/ raw = Some(<<>>)) /\ ~required
      THEN [threw |-> "", val |-> defVal]
    ELSE IF raw = None \/ raw = Some(<<>>)
      THEN [threw |-> "Missing environment variable", val |-> Undefined]
    ELSE IF IsInherited(raw)
      THEN IF trim
             THEN [threw |-> "TypeError: raw.trim is not a function",
                   val |-> Undefined]
           ELSE IF parser = "number" THEN NumberParserOfObject(raw)
           ELSE [threw |-> "", val |-> Member(raw)]
    ELSE LET str == IF trim THEN Trim(raw[1]) ELSE raw[1] IN
         IF parser = "number" THEN NumberParser(str)
         ELSE [threw |-> "", val |-> Str(str)]

Env_getNumber(c, key, required, def) ==
    Env_getParsed(c, key, required, def, TRUE, "number")

(* Env.require(...keys): missing is keys.filter(k => !this.has(k)). *)
Env_require(c, keys) ==
    LET missing == SelectSeq(keys, LAMBDA k : ~Env_has(c, k)) IN
    [threw |-> IF missing # <<>> THEN "Missing required env var(s)" ELSE "",
     missing |-> missing]

----------------------------------------------------------------------------
(* The otpauth library as OTP uses it *)

(* OTPAuth.URI.parse on the provisioning strings of the model. *)
URI_parse(s) ==
    IF s = <<UriTotp6>>
      THEN [kind |-> "TOTP", obj |-> Some(Totp6), message |-> ""]
    ELSE IF s = <<UriTotp1>>
      THEN [kind |-> "TOTP", obj |-> Some(Totp1), message |-> ""]
    ELSE IF s = <<UriHotp>>
      THEN [kind |-> "HOTP", obj |-> Some(Hotp), message |-> ""]
    ELSE IF s = <<UriBadSecret>>
      THEN [kind |-> "error", obj |-> None,
            message |-> "Invalid 'secret' parameter"]
    ELSE [kind |-> "error", obj |-> None, message |-> "Invalid URI format"]

(* HMAC-SHA1(secret, counter as 8 bytes big-endian) after dynamic          *)
(* truncation to 31 bits, for Secret and the counters -6 .. 11.            *)
TruncatedHmac ==
    << 2027265879, 425293533, 942152854, 1576851516, 1289488204, 1663094451,
       1284755224, 1094287082, 137359152, 1726969429, 1640338314, 868254676,
       1918287922, 82162583, 673399871, 645520489, 1872403154, 1243481090 >>

Truncated(secret, counter) == TruncatedHmac[counter + 7]

RECURSIVE Pow10(_)
Pow10(n) == IF n = 0 THEN 1 ELSE 10 * Pow10(n - 1)

(* HOTP.generate: the truncated value modulo 10^digits, left-padded with   *)
(* "0" to digits characters, as code units.                                *)
HOTP_generate(spec, counter) ==
    LET otp == Truncated(spec.secret, counter) % Pow10(spec.digits) IN
    [i \in 1..spec.digits |-> 48 + ((otp \div Pow10(spec.digits - i)) % 10)]

(* TOTP.counter: Math.floor(timestamp / 1000 / period) *)
TOTP_counter(spec, timestamp) == (timestamp \div 1000) \div spec.period

(* TOTP.generate({timestamp}); the parameter defaults to Date.now() when   *)
(* it is undefined.                                                        *)
TOTP_generate(spec, ts, clock) ==
    HOTP_generate(spec, TOTP_counter(spec, IF ts = None THEN clock ELSE ts[1]))

(* The sweep of HOTP.validate past the current counter: counter - i, then  *)
(* counter + i, for i = 1 .. window, stopping at the first match.          *)
RECURSIVE Sweep(_, _, _, _, _)
Sweep(spec, token, counter, window, i) ==
    IF i > window THEN [delta |-> None, gens |-> 2 * (i - 1) + 1]
    ELSE IF HOTP_generate(spec, counter - i) = token
      THEN [delta |-> Some(0 - i), gens |-> 2 * i]
    ELSE IF HOTP_generate(spec, counter + i) = token
      THEN [delta |-> Some(i), gens |-> 2 * i + 1]
    ELSE Sweep(spec, token, counter, window, i + 1)

(* The validation of an implementation that walks the window from its low  *)
(* end to its high end and keeps the last match.                           *)
HOTP_validateAscending(spec, token, counter, window) ==
    LET hits == {d \in (0 - window)..window :
                    HOTP_generate(spec, counter + d) = token} IN
    IF Len(token) # spec.digits THEN [delta |-> None, gens |-> 0]
    ELSE IF hits = {} THEN [delta |-> None, gens |-> 2 * window + 1]
    ELSE [delta |-> Some(CHOOSE d \in hits : \A e \in hits : e <= d),
          gens |-> 2 * window + 1]

(* HOTP.validate: null at once when the token's length is not digits; else *)
(* the current counter first, then the sweep.  gens counts the codes       *)
(* generated for comparison.                                               *)
HOTP_validate(spec, token, counter, window) ==
    IF Len(token) # spec.digits THEN [delta |-> None, gens |-> 0]
    ELSE IF HOTP_generate(spec, counter) = token
      THEN [delta |-> Some(0), gens |-> 1]
    ELSE Sweep(spec, token, counter, window, 1)

(* TOTP.validate({token, window, timestamp}); timestamp defaults to        *)
(* Date.now() when it is undefined.                                        *)
TOTP_validate(spec, token, window, ts, clock) ==
    HOTP_validate(spec, token,
                  TOTP_counter(spec, IF ts = None THEN clock ELSE ts[1]), window)

----------------------------------------------------------------------------
(* OTP (src/framework/security/otp.ts) *)

(* getUri that looks the key up before it looks at the literal. *)
getUriKeyFirst(u, k, c) ==
    IF k # None /\ k[1] # ""
      THEN LET e == Env_getString(c, k[1], TRUE, None) IN
           [threw |-> e.threw, val |-> IF e.val = None THEN <<>> ELSE e.val[1],
            looked |-> TRUE]
    ELSE IF u # None /\ u[1] # <<>> /\ Trim(u[1]) # <<>>
      THEN [threw |-> "", val |-> Trim(u[1]), looked |-> FALSE]
    ELSE [threw |-> "OTP: No URI or envKey provided.", val |-> <<>>,
          looked |-> FALSE]

(* OTP.getUri: looked tells whether the store was consulted. *)
getUri(u, k, c) ==
    IF u # None /\ u[1] # <<>> /\ Trim(u[1]) # <<>>
      THEN [threw |-> "", val |-> Trim(u[1]), looked |-> FALSE]
    ELSE IF k # None /\ k[1] # ""
      THEN LET e == Env_getString(c, k[1], TRUE, None) IN
           [threw |-> e.threw, val |-> IF e.val = None THEN <<>> ELSE e.val[1],
            looked |-> TRUE]
    ELSE [threw |-> "OTP: No URI or envKey provided.", val |-> <<>>,
          looked |-> FALSE]

(* The error getTOTP throws when URI.parse threw an error with message m.  *)
InvalidUriError(m) ==
    IF m = "Invalid 'secret' parameter"
      THEN "OTP: Invalid otpauth URI: Invalid 'secret' parameter"
      ELSE "OTP: Invalid otpauth URI: Invalid URI format"

NotTotpError == "OTP: The provided URI is not a TOTP configuration."

(* getTOTP past the cache test, with the type test inside the try block:   *)
(* its error is caught and rethrown as the parse error.                    *)
resolveAndParseTypeTestInTry(u, k, c) ==
    LET r == getUri(u, k, c) IN
    IF r.threw # "" THEN [threw |-> r.threw, totp |-> None, reparsed |-> FALSE]
    ELSE LET parsed == URI_parse(r.val) IN
         IF parsed.kind # "TOTP"
           THEN [threw |-> InvalidUriError(parsed.message), totp |-> None,
                 reparsed |-> TRUE]
         ELSE [threw |-> "", totp |-> parsed.obj, reparsed |-> TRUE]

(* getTOTP past the cache test, storing the parsed object before it tests  *)
(* the type.                                                               *)
resolveAndParseStoreFirst(u, k, c) ==
    LET r == getUri(u, k, c) IN
    IF r.threw # "" THEN [threw |-> r.threw, totp |-> None, reparsed |-> FALSE]
    ELSE LET parsed == URI_parse(r.val) IN
         IF parsed.kind = "error"
           THEN [threw |-> InvalidUriError(parsed.message), totp |-> None,
                 reparsed |-> TRUE]
         ELSE IF parsed.kind # "TOTP"
           THEN [threw |-> NotTotpError, totp |-> parsed.obj, reparsed |-> TRUE]
         ELSE [threw |-> "", totp |-> parsed.obj, reparsed |-> TRUE]

(* OTP.getTOTP past the cache test: resolve, parse, test the type.         *)
(* totp is the value this.totp has afterwards.                             *)
resolveAndParse(u, k, c) ==
    LET r == getUri(u, k, c) IN
    IF r.threw # "" THEN [threw |-> r.threw, totp |-> None, reparsed |-> FALSE]
    ELSE LET parsed == URI_parse(r.val) IN
         IF parsed.kind = "error"
           THEN [threw |-> InvalidUriError(parsed.message), totp |-> None,
                 reparsed |-> TRUE]
         ELSE IF parsed.kind # "TOTP"
           THEN [threw |-> NotTotpError, totp |-> None, reparsed |-> TRUE]
         ELSE [threw |-> "", totp |-> parsed.obj, reparsed |-> TRUE]

(* getTOTP of the variant that keeps no cache and reads the live store.    *)
getTOTPLive(cur, u, k, c) == resolveAndParse(u, k, processEnv)

(* getTOTP without the test of the cache.                                  *)
getTOTPNoCacheTest(cur, u, k, c) == resolveAndParse(u, k, c)

(* getTOTP that remembers that its last run failed and fails at once. *)
getTOTPRememberFailure(cur, u, k, c) ==
    IF cur # None THEN [threw |-> "", totp |-> cur, reparsed |-> FALSE]
    ELSE IF failed > 0
      THEN [threw |-> "OTP: configuration failed before", totp |-> None,
            reparsed |-> FALSE]
    ELSE resolveAndParse(u, k, c)

(* OTP.getTOTP *)
getTOTP(cur, u, k, c) ==
    IF cur # None THEN [threw |-> "", totp |-> cur, reparsed |-> FALSE]
    ELSE resolveAndParse(u, k, c)

(* OTP.getCode, given the TOTP object: a falsy timestamp (undefined, 0)    *)
(* takes the branch without a timestamp.                                   *)
getCode(spec, ts, clock) ==
    IF ts # None /\ ts[1] # 0 THEN TOTP_generate(spec, ts, clock)
    ELSE TOTP_generate(spec, None, clock)

(* The \\s class of the regular expression, as code units. *)
IsWhitespace(ch) ==
    \/ ch \in 9..13
    \/ ch \in {32, 160, 5760, 8232, 8233, 8239, 8287, 12288, 65279}
    \/ ch \in 8192..8202

(* toAsciiDigits: full-width digits U+FF10..U+FF19 to "0".."9". *)
toAsciiDigits(s) ==
    [i \in 1..Len(s) |-> IF s[i] \in 65296..65305 THEN s[i] - 65296 + 48 ELSE s[i]]

(* toUpperCase on the letters of the model's alphabet (ASCII). *)
toUpperCase(s) ==
    [i \in 1..Len(s) |-> IF s[i] \in 97..122 THEN s[i] - 32 ELSE s[i]]

NotWhitespace(ch) == ~IsWhitespace(ch)

(* OTP.normalizeToken *)
normalizeToken(input) ==
    toUpperCase(SelectSeq(toAsciiDigits(input), NotWhitespace))

(* verify whose ok is the truthiness of delta. *)
verifyTruthyDelta(spec, code, window, ts, clock) ==
    IF code = <<>>
      THEN [ok |-> FALSE, delta |-> None,
            reason |-> Some("Empty or non-string code"), gens |-> 0]
    ELSE LET v == TOTP_validate(spec, normalizeToken(code), window, ts, clock) IN
         [ok |-> v.delta # None /\ v.delta # Some(0), delta |-> v.delta,
          reason |-> IF v.delta = None
                       THEN Some("Invalid or out-of-window token") ELSE None,
          gens |-> v.gens]

(* verify that validates with the default window whatever window it got. *)
verifyDefaultWindow(spec, code, window, ts, clock) ==
    IF code = <<>>
      THEN [ok |-> FALSE, delta |-> None,
            reason |-> Some("Empty or non-string code"), gens |-> 0]
    ELSE LET v == TOTP_validate(spec, normalizeToken(code), 1, ts, clock) IN
         [ok |-> v.delta # None, delta |-> v.delta,
          reason |-> IF v.delta = None
                       THEN Some("Invalid or out-of-window token") ELSE None,
          gens |-> v.gens]

(* The boolean verify of the older OTP class, given the TOTP object: the   *)
(* candidate goes to validate as it is.                                    *)
legacyVerify(spec, code, window, ts, clock) ==
    TOTP_validate(spec, code, window, ts, clock).delta # None

(* OTP.verify, given the TOTP object. *)
verify(spec, code, window, ts, clock) ==
    IF code = <<>>
      THEN [ok |-> FALSE, delta |-> None,
            reason |-> Some("Empty or non-string code"), gens |-> 0]
    ELSE LET v == TOTP_validate(spec, normalizeToken(code), window, ts, clock) IN
         [ok |-> v.delta # None, delta |-> v.delta,
          reason |-> IF v.delta = None
                       THEN Some("Invalid or out-of-window token") ELSE None,
          gens |-> v.gens]

(* ToBoolean of a value verify returns: it is an object, and an object is *)
(* truthy whatever its properties hold.                                   *)
ToBoolean(result) == DOMAIN result # {}

(* verifyBool as the truthiness of what verify returns. *)
verifyBoolOfObject(spec, code, window, ts, clock) ==
    ToBoolean(verify(spec, code, window, ts, clock))

(* OTP.verifyBool, given the TOTP object. *)
verifyBool(spec, code, window, ts, clock) ==
    verify(spec, code, window, ts, clock).ok

----------------------------------------------------------------------------
(* The record of a call *)

NoResult == [ok |-> FALSE, delta |-> None, reason |-> None, gens |-> 0]

Call(op, code, window, ts, g, out, res) ==
    [op |-> op, code |-> code, window |-> window, ts |-> ts,
     threw |-> g.threw, spec |-> IF g.threw = "" THEN g.totp ELSE None,
     reparsed |-> g.reparsed, out |-> out,
     ok |-> res.ok, delta |-> res.delta, reason |-> res.reason,
     gens |-> res.gens, cyc |-> cycle, clock |-> now]

NoCall(op) ==
    [op |-> op, code |-> <<>>, window |-> 0, ts |-> None, threw |-> "",
     spec |-> None, reparsed |-> FALSE, out |-> <<>>, ok |-> FALSE,
     delta |-> None, reason |-> None, gens |-> 0, cyc |-> cycle, clock |-> now]

(* What a call through getTOTP does to the engine: g is getTOTP's outcome. *)
ThroughGetTOTP(g) ==
    /\ totp' = g.totp
    /\ parses' = IF g.reparsed /\ g.threw = "" /\ parses < ParseCap
                   THEN parses + 1 ELSE parses
    /\ cycle' = IF g.threw = "" /\ cycle \in {"new", "refreshed"}
                  THEN "cached" ELSE cycle
    /\ resolved' = IF g.reparsed \/ g.threw # ""
                     THEN Some(getUri(uri, envKey, cache)) ELSE resolved
    /\ failed' = IF g.threw = "" THEN 0
                 ELSE IF failed < FailCap THEN failed + 1 ELSE failed
    /\ UNCHANGED <<cache, processEnv, made, uri, envKey, now, pinned, writes,
                   ticks, envLast, passed>>

(* No call on Env yet. *)
NoEnvCall == [op |-> "start"]

----------------------------------------------------------------------------
(* Actions *)

(* OTP.fromEnv(envKey) with an eager first parse. *)
CallFromEnvEager(k) ==
    /\ ~made
    /\ made' = TRUE
    /\ uri' = None
    /\ envKey' = Some(k)
    /\ totp' = resolveAndParse(None, Some(k), cache).totp
    /\ parses' = 0
    /\ cycle' = "new"
    /\ last' = NoCall("fromEnv")
    /\ resolved' = None
    /\ failed' = 0
    /\ UNCHANGED <<cache, processEnv, now, gen, pinned, writes, ticks, envLast,
                   passed>>

(* OTP.fromEnv(envKey) that also stores the string the key resolves to. *)
CallFromEnvResolved(k) ==
    /\ ~made
    /\ made' = TRUE
    /\ uri' = LET r == getUri(None, Some(k), cache) IN
              IF r.threw = "" THEN Some(r.val) ELSE None
    /\ envKey' = Some(k)
    /\ totp' = None
    /\ parses' = 0
    /\ cycle' = "new"
    /\ last' = NoCall("fromEnv")
    /\ resolved' = None
    /\ failed' = 0
    /\ UNCHANGED <<cache, processEnv, now, gen, pinned, writes, ticks, envLast,
                   passed>>

(* OTP.fromEnv(envKey): new OTP({ envKey }) *)
CallFromEnv(k) ==
    /\ ~made
    /\ made' = TRUE
    /\ uri' = None
    /\ envKey' = Some(k)
    /\ totp' = None
    /\ parses' = 0
    /\ cycle' = "new"
    /\ last' = NoCall("fromEnv")
    /\ resolved' = None
    /\ failed' = 0
    /\ UNCHANGED <<cache, processEnv, now, gen, pinned, writes, ticks, envLast,
                   passed>>

(* OTP.fromUri(uri) that resolves and parses at construction. *)
CallFromUriEager(u) ==
    /\ ~made
    /\ made' = TRUE
    /\ uri' = Some(u)
    /\ envKey' = None
    /\ totp' = resolveAndParse(Some(u), None, cache).totp
    /\ parses' = 0
    /\ cycle' = "new"
    /\ last' = [NoCall("fromUri") EXCEPT
                  !.threw = resolveAndParse(Some(u), None, cache).threw]
    /\ resolved' = Some(getUri(Some(u), None, cache))
    /\ failed' = 0
    /\ UNCHANGED <<cache, processEnv, now, gen, pinned, writes, ticks, envLast,
                   passed>>

(* OTP.fromUri(uri): new OTP({ uri }) *)
CallFromUri(u) ==
    /\ ~made
    /\ made' = TRUE
    /\ uri' = Some(u)
    /\ envKey' = None
    /\ totp' = None
    /\ parses' = 0
    /\ cycle' = "new"
    /\ last' = NoCall("fromUri")
    /\ resolved' = None
    /\ failed' = 0
    /\ UNCHANGED <<cache, processEnv, now, gen, pinned, writes, ticks, envLast,
                   passed>>

(* OTP.getTOTP() *)
CallGetTOTP ==
    /\ made
    /\ LET g == getTOTP(totp, uri, envKey, cache) IN
       /\ ThroughGetTOTP(g)
       /\ last' = Call("getTOTP", <<>>, 0, None, g, <<>>, NoResult)
    /\ UNCHANGED gen

(* OTP.getCode(timestamp?) *)
CallGetCode(ts) ==
    /\ made
    /\ LET g == getTOTP(totp, uri, envKey, cache) IN
       /\ ThroughGetTOTP(g)
       /\ IF g.threw # ""
            THEN /\ last' = Call("getCode", <<>>, 0, ts, g, <<>>, NoResult)
                 /\ gen' = gen
            ELSE LET out == getCode(g.totp[1], ts, now) IN
                 /\ last' = Call("getCode", <<>>, 0, ts, g, out, NoResult)
                 /\ gen' = Some([ts |-> ts, code |-> out, spec |-> g.totp[1]])

(* verify that tests the candidate for emptiness before it calls getTOTP. *)
CallVerifyEmptyFirst(code, window, ts) ==
    /\ made
    /\ LET g == IF code = <<>>
                  THEN [threw |-> "", totp |-> totp, reparsed |-> FALSE]
                  ELSE getTOTP(totp, uri, envKey, cache)
       IN
       /\ ThroughGetTOTP(g)
       /\ last' = IF code = <<>>
                    THEN [Call("verify", code, window, ts, g, <<>>,
                               [NoResult EXCEPT
                                  !.reason = Some("Empty or non-string code")])
                            EXCEPT !.spec = None]
                    ELSE Call("verify", code, window, ts, g, <<>>,
                              IF g.threw # "" THEN NoResult
                              ELSE verify(g.totp[1], code, window, ts, now))
    /\ UNCHANGED gen

(* verify that throws when the candidate does not match. *)
CallVerifyThrowing(code, window, ts) ==
    /\ made
    /\ LET g == getTOTP(totp, uri, envKey, cache)
           res == IF g.threw # "" THEN NoResult
                  ELSE verify(g.totp[1], code, window, ts, now)
       IN
       /\ ThroughGetTOTP(g)
       /\ last' = IF g.threw = "" /\ ~res.ok
                    THEN [Call("verify", code, window, ts, g, <<>>, NoResult)
                            EXCEPT !.threw = "Invalid OTP"]
                    ELSE Call("verify", code, window, ts, g, <<>>, res)
    /\ UNCHANGED gen

(* OTP.verify(code, window, timestamp?) *)
CallVerify(code, window, ts) ==
    /\ made
    /\ LET g == getTOTP(totp, uri, envKey, cache) IN
       /\ ThroughGetTOTP(g)
       /\ last' = Call("verify", code, window, ts, g, <<>>,
                       IF g.threw # "" THEN NoResult
                       ELSE verify(g.totp[1], code, window, ts, now))
    /\ UNCHANGED gen

(* OTP.verifyBool(code, window, timestamp?): verify(...).ok *)
CallVerifyBool(code, window, ts) ==
    /\ made
    /\ LET g == getTOTP(totp, uri, envKey, cache) IN
       /\ ThroughGetTOTP(g)
       /\ last' = Call("verifyBool", code, window, ts, g, <<>>,
                       IF g.threw # "" THEN NoResult
                       ELSE [NoResult EXCEPT
                               !.ok = verifyBool(g.totp[1], code, window, ts, now)])
    /\ UNCHANGED gen

(* refresh() that clears the cache and fills it again at once. *)
CallRefreshEager ==
    /\ made
    /\ LET g == resolveAndParse(uri, envKey, cache) IN
       /\ totp' = g.totp
       /\ last' = [NoCall("refresh") EXCEPT !.threw = g.threw,
                                            !.reparsed = g.reparsed]
       /\ resolved' = Some(getUri(uri, envKey, cache))
    /\ parses' = 0
    /\ cycle' = IF cycle = "changed" THEN "refreshed"
                ELSE IF cycle = "cached" THEN "new" ELSE cycle
    /\ failed' = 0
    /\ UNCHANGED <<cache, processEnv, made, uri, envKey, now, gen, pinned,
                   writes, ticks, envLast, passed>>

(* OTP.refresh() *)
CallRefresh ==
    /\ made
    /\ totp' = None
    /\ parses' = 0
    /\ cycle' = IF cycle = "changed" THEN "refreshed"
                ELSE IF cycle = "cached" THEN "new" ELSE cycle
    /\ last' = NoCall("refresh")
    /\ resolved' = None
    /\ failed' = 0
    /\ UNCHANGED <<cache, processEnv, made, uri, envKey, now, gen, pinned,
                   writes, ticks, envLast, passed>>

(* The environment changes at run time: process.env[KEY] is set to another *)
(* value or deleted.  Env.cache is a copy and is not written.              *)
SetEnv(v) ==
    /\ writes < MaxEnvWrites
    /\ v # processEnv[KEY]
    /\ processEnv' = [processEnv EXCEPT ![KEY] = v]
    /\ writes' = writes + 1
    /\ cycle' = IF cycle = "cached" THEN "changed" ELSE cycle
    /\ pinned' = IF cycle = "cached" THEN totp ELSE pinned
    /\ last' = NoCall("setEnv")
    /\ UNCHANGED <<cache, made, uri, envKey, totp, now, gen, parses, ticks,
                   resolved, failed, envLast, passed>>

(* Time passes. *)
Tick ==
    /\ ticks < MaxTicks
    /\ ticks' = ticks + 1
    /\ now' = now + TickMs
    /\ UNCHANGED <<cache, processEnv, made, uri, envKey, totp, last, gen,
                   parses, cycle, pinned, writes, resolved, failed, envLast,
                   passed>>

(* What a call on Env leaves alone: the engine, the clock, process.env. *)
EnvCallFrame ==
    UNCHANGED <<cache, processEnv, made, uri, envKey, totp, now, last, gen,
                parses, cycle, pinned, writes, ticks, resolved, failed>>

(* Env.get(key, { required, default, trim, parser? }) *)
CallEnvGet(key, required, def, trim, parser) ==
    /\ LET e == Env_getParsed(cache, key, required, def, trim, parser) IN
       envLast' = [op |-> "get", key |-> key, required |-> required,
                   def |-> def, trim |-> trim, parser |-> parser,
                   threw |-> e.threw, val |-> e.val, at |-> writes]
    /\ passed' = passed
    /\ EnvCallFrame

(* Env.getString(key, required, def) *)
CallEnvGetString(key, required, def) ==
    /\ LET e == Env_getString(cache, key, required, def) IN
       envLast' = [op |-> "getString", key |-> key, required |-> required,
                   def |-> def, threw |-> e.threw, val |-> e.val, at |-> writes]
    /\ passed' = passed
    /\ EnvCallFrame

(* Env.getNumber(key, required, def) *)
CallEnvGetNumber(key, required, def) ==
    /\ LET e == Env_getNumber(cache, key, required, def) IN
       envLast' = [op |-> "getNumber", key |-> key, required |-> required,
                   def |-> def, threw |-> e.threw, val |-> e.val, at |-> writes]
    /\ passed' = passed
    /\ EnvCallFrame

(* Env.has(key) *)
CallEnvHas(key) ==
    /\ envLast' = [op |-> "has", key |-> key, ok |-> Env_has(cache, key),
                   at |-> writes]
    /\ passed' = passed
    /\ EnvCallFrame

(* Env.require(...keys) *)
CallEnvRequire(keys) ==
    /\ LET e == Env_require(cache, keys) IN
       /\ envLast' = [op |-> "require", keys |-> keys, threw |-> e.threw,
                      missing |-> e.missing, at |-> writes]
       /\ passed' = IF e.threw = ""
                      THEN passed \cup {keys[i] : i \in 1..Len(keys)}
                      ELSE passed
    /\ EnvCallFrame

----------------------------------------------------------------------------
(* Inputs *)

EnvValues ==
    { None, Some(<<>>), Some(<<" ">>), Some(<<UriTotp6>>),
      Some(<<" ", UriTotp1>>), Some(<<UriHotp>>), Some(<<UriBad>>) }

EnvKeyArgs == { KEY, "", "constructor" }

UriArgs == { <<UriTotp6>>, <<" ", UriTotp1, " ">>, <<" ">>, <<>>, <<UriBadSecret>> }

(* "287082" is the code of Totp6 in step 1, "4" the code of Totp1 in step 0 *)
Code287082 == <<50, 56, 55, 48, 56, 50>>

FewTimestamps == { None, Some(30000) }
FewCandidates == { <<>>, <<52>>, Code287082 }

(* Instants passed to getCode: the epoch, both ends of step 0, the starts   *)
(* of steps 1 and 2; instants passed to verify: the starts of steps 0..2.  *)
Timestamps == { None, Some(0), Some(1), Some(29999), Some(30000), Some(60000) }
VerifyTimestamps == { None, Some(0), Some(30000), Some(60000) }

(* "", " ", "4", "2", full-width "4", " 2", "a", "287082", " 287082 " *)
Candidates ==
    { <<>>, <<32>>, <<52>>, <<50>>, <<65300>>, <<32, 50>>, <<97>>,
      Code287082, <<32>> \o Code287082 \o <<32>> }

----------------------------------------------------------------------------
(* Spec: the life of one engine from the start of the process. *)

Init ==
    /\ cache \in [{KEY} -> EnvValues]
    /\ processEnv = cache
    /\ made = FALSE
    /\ uri = None
    /\ envKey = None
    /\ totp = None
    /\ now = NowStart
    /\ last = [op |-> "start", code |-> <<>>, window |-> 0, ts |-> None,
               threw |-> "", spec |-> None, reparsed |-> FALSE, out |-> <<>>,
               ok |-> FALSE, delta |-> None, reason |-> None, gens |-> 0,
               cyc |-> "none", clock |-> NowStart]
    /\ gen = None
    /\ parses = 0
    /\ cycle = "none"
    /\ pinned = None
    /\ writes = 0
    /\ ticks = 0
    /\ resolved = None
    /\ failed = 0
    /\ envLast = NoEnvCall
    /\ passed = {}

Next ==
    \/ \E k \in EnvKeyArgs : CallFromEnv(k)
    \/ \E u \in UriArgs : CallFromUri(u)
    \/ CallGetTOTP
    \/ \E ts \in FewTimestamps : CallGetCode(ts)
    \/ \E code \in FewCandidates, ts \in FewTimestamps : CallVerify(code, 1, ts)
    \/ \E code \in FewCandidates, ts \in FewTimestamps : CallVerifyBool(code, 1, ts)
    \/ CallRefresh
    \/ \E v \in EnvValues : SetEnv(v)

Spec == Init /\ [][Next]_vars

----------------------------------------------------------------------------
(* SpecVerify: an engine with a valid configuration, under a moving clock. *)

InitVerify ==
    /\ cache = [x \in {KEY} |-> Some(<<UriTotp6>>)]
    /\ processEnv = cache
    /\ made = TRUE
    /\ \/ uri = None /\ envKey = Some(KEY)
       \/ uri = Some(<<" ", UriTotp1>>) /\ envKey = None
    /\ totp = None
    /\ now = NowStart
    /\ last = [op |-> "start", code |-> <<>>, window |-> 0, ts |-> None,
               threw |-> "", spec |-> None, reparsed |-> FALSE, out |-> <<>>,
               ok |-> FALSE, delta |-> None, reason |-> None, gens |-> 0,
               cyc |-> "new", clock |-> NowStart]
    /\ gen = None
    /\ parses = 0
    /\ cycle = "new"
    /\ pinned = None
    /\ writes = 0
    /\ ticks = 0
    /\ resolved = None
    /\ failed = 0
    /\ envLast = NoEnvCall
    /\ passed = {}

NextVerify ==
    \/ \E ts \in Timestamps \cup {Some(now)} : CallGetCode(ts)
    \/ \E code \in Candidates \cup (IF gen = None THEN {} ELSE {gen[1].code}),
          window \in 0..MaxWindow, ts \in VerifyTimestamps :
          CallVerify(code, window, ts)
    \/ Tick

SpecVerify == InitVerify /\ [][NextVerify]_vars

----------------------------------------------------------------------------
(* SpecResolver: getUri on every source the constructor accepts: the       *)
(* options object may hold a literal, a key, both or neither.              *)

InitResolver ==
    /\ cache \in [{KEY} -> EnvValues]
    /\ processEnv = cache
    /\ made = TRUE
    /\ uri \in {None} \cup {Some(u) : u \in UriArgs}
    /\ envKey \in {None} \cup {Some(k) : k \in EnvKeyArgs}
    /\ totp = None
    /\ now = NowStart
    /\ last = [op |-> "start", code |-> <<>>, window |-> 0, ts |-> None,
               threw |-> "", spec |-> None, reparsed |-> FALSE, out |-> <<>>,
               ok |-> FALSE, delta |-> None, reason |-> None, gens |-> 0,
               cyc |-> "new", clock |-> NowStart]
    /\ gen = None
    /\ parses = 0
    /\ cycle = "new"
    /\ pinned = None
    /\ writes = 0
    /\ ticks = 0
    /\ resolved = None
    /\ failed = 0
    /\ envLast = NoEnvCall
    /\ passed = {}

NextResolver ==
    \/ CallGetTOTP
    \/ CallRefresh

SpecResolver == InitResolver /\ [][NextResolver]_vars

----------------------------------------------------------------------------
(* SpecEnv: calls on Env over a store of two keys, while process.env is    *)
(* written.                                                                *)

USER == "HEROKU_USERNAME"

(* unset, "", " ", "42", " 7", "x", "1e3", "0x10" *)
EnvStrings ==
    { None, Some(<<>>), Some(<<" ">>), Some(<<"4", "2">>), Some(<<" ", "7">>),
      Some(<<"x">>), Some(<<"1", "e", "3">>), Some(<<"0", "x", "1", "0">>) }

EnvWrites == { None, Some(<<"4", "2">>) }

EnvDefaults == { Undefined, Str(<<"8">>), Num(5) }

EnvKeys == { USER, KEY, "constructor" }

RequireArgs ==
    { <<KEY>>, <<USER, KEY>>, <<KEY, USER>>, <<"constructor">> }

InitEnv ==
    /\ cache \in [{USER, KEY} -> EnvStrings]
    /\ cache[USER] \in {None, Some(<<>>), Some(<<"x">>)}
    /\ processEnv = cache
    /\ made = FALSE
    /\ uri = None
    /\ envKey = None
    /\ totp = None
    /\ now = NowStart
    /\ last = [op |-> "start", code |-> <<>>, window |-> 0, ts |-> None,
               threw |-> "", spec |-> None, reparsed |-> FALSE, out |-> <<>>,
               ok |-> FALSE, delta |-> None, reason |-> None, gens |-> 0,
               cyc |-> "none", clock |-> NowStart]
    /\ gen = None
    /\ parses = 0
    /\ cycle = "none"
    /\ pinned = None
    /\ writes = 0
    /\ ticks = 0
    /\ resolved = None
    /\ failed = 0
    /\ envLast = NoEnvCall
    /\ passed = {}

NextEnv ==
    \/ \E key \in EnvKeys, required \in BOOLEAN, def \in EnvDefaults,
          trim \in BOOLEAN, parser \in {"none", "number"} :
          CallEnvGet(key, required, def, trim, parser)
    \/ \E key \in EnvKeys, required \in BOOLEAN,
          def \in {None, Some(<<"8">>)} : CallEnvGetString(key, required, def)
    \/ \E key \in EnvKeys, required \in BOOLEAN,
          def \in {Undefined, Num(5)} : CallEnvGetNumber(key, required, def)
    \/ \E key \in EnvKeys : CallEnvHas(key)
    \/ \E keys \in RequireArgs : CallEnvRequire(keys)
    \/ \E v \in EnvWrites : SetEnv(v)

SpecEnv == InitEnv /\ [][NextEnv]_vars

----------------------------------------------------------------------------
(* Properties *)

IsUse(op) == op \in {"getCode", "verify", "verifyBool"}

Abs(n) == IF n < 0 THEN 0 - n ELSE n

(* C1: for an engine made by fromEnv, when the backing value of the key    *)
(* was changed after the spec was cached and refresh() was then called,    *)
(* the next getCode/verify call resolves and parses the updated value: it  *)
(* ends as a resolve-and-parse of the live value ends.                     *)
C1_RefreshPicksUpChange ==
    (IsUse(last.op) /\ last.cyc = "refreshed" /\ uri = None /\ envKey # None)
      => LET live == resolveAndParse(uri, envKey, processEnv) IN
         /\ last.reparsed = live.reparsed
         /\ last.threw = live.threw
         /\ last.spec = live.totp

(* C2: once a spec is cached, a change of the backing value is not seen by *)
(* a getCode/verify/verifyBool call made before refresh(): the call does   *)
(* not resolve again and uses the spec parsed before the change.           *)
C2_ChangeUnobservedBeforeRefresh ==
    (IsUse(last.op) /\ last.cyc = "changed")
      => /\ last.threw = ""
         /\ ~last.reparsed
         /\ last.spec = pinned

(* A call on a fromEnv engine whose key now holds the 1-digit URI, served  *)
(* from the 6-digit spec cached before the change.                         *)
C2_Witness ==
    /\ last.op = "verify"
    /\ last.cyc = "changed"
    /\ envKey = Some(KEY)
    /\ processEnv[KEY] = Some(<<" ", UriTotp1>>)
    /\ pinned = Some(Totp6)
    /\ last.spec = Some(Totp6)

(* C3: whatever the interleaving of getCode, verify and getTOTP calls on   *)
(* one engine, at most one successful resolve-and-parse happens between    *)
(* construction and the first refresh() and between two refresh() calls.   *)
C3_AtMostOneParsePerCycle == parses <= 1

(* A verify served from the cache that a getCode filled earlier in the     *)
(* same cycle.                                                             *)
C3_Witness ==
    /\ parses = 1
    /\ last.op = "verify"
    /\ last.threw = ""
    /\ ~last.reparsed
    /\ gen # None

(* C4: the constructors resolve and parse nothing and leave the cache      *)
(* empty; a first call that returns fills it; refresh() empties it; no     *)
(* step other than refresh() changes a filled cache.                       *)
C4_LazyCacheClearedOnlyByRefresh ==
    [][ /\ (~made /\ made') => (totp' = None /\ parses' = 0)
        /\ (made /\ totp = None /\ last'.op \in {"getTOTP", "getCode", "verify", "verifyBool"}
              /\ last'.threw = "")
             => (totp' # None /\ last'.reparsed)
        /\ (last'.op = "refresh") => totp' = None
        /\ (totp # None /\ last'.op # "refresh") => totp' = totp
      ]_vars

(* The first getCode on a fresh engine has filled the cache. *)
C4_Witness ==
    /\ last.op = "getCode"
    /\ last.reparsed
    /\ last.cyc = "new"
    /\ totp # None
    /\ parses = 1

(* The last call is a verify that returned, of the code the last getCode   *)
(* returned, on the same spec, both with an explicit instant.              *)
VerifiedGenerated ==
    /\ last.op = "verify"
    /\ last.threw = ""
    /\ gen # None
    /\ gen[1].ts # None
    /\ last.ts # None
    /\ last.code = gen[1].code
    /\ last.spec = Some(gen[1].spec)

(* C5: round trip: for every instant t a caller can pass, the epoch        *)
(* included, verify(getCode(t), 0, t) returns ok = true with delta = 0.    *)
C5_RoundTrip ==
    (VerifiedGenerated /\ last.window = 0 /\ last.ts = gen[1].ts)
      => (last.ok /\ last.delta = Some(0))

(* C6: window tolerance: verify(getCode(t + d*period), w, t) returns       *)
(* ok = true with delta = d when |d| <= w, and ok = false when |d| > w.    *)
C6_WindowTolerance ==
    LET step == gen[1].spec.period * 1000
        d == (gen[1].ts[1] - last.ts[1]) \div step
    IN  (VerifiedGenerated /\ (gen[1].ts[1] - last.ts[1]) % step = 0)
          => IF Abs(d) <= last.window
               THEN last.ok /\ last.delta = Some(d)
               ELSE ~last.ok

(* C7: two getCode calls on the same spec with instants of the same step   *)
(* (floor(t/period) equal) return the same code, whatever the wall clock   *)
(* and whatever was called in between.                                     *)
C7_SameStepSameCode ==
    [][ (/\ gen # None
         /\ gen' # None
         /\ gen[1].ts # None
         /\ gen'[1].ts # None
         /\ gen'[1].spec = gen[1].spec
         /\ TOTP_counter(gen[1].spec, gen'[1].ts[1])
              = TOTP_counter(gen[1].spec, gen[1].ts[1]))
        => gen'[1].code = gen[1].code ]_vars

(* The offsets within the window whose code is the normalized candidate.   *)
Hits ==
    LET spec == last.spec[1]
        counter == TOTP_counter(spec, IF last.ts = None THEN last.clock
                                                        ELSE last.ts[1])
    IN  {d \in (0 - last.window)..last.window :
            HOTP_generate(spec, counter + d) = normalizeToken(last.code)}

(* The place of offset d in the order 0, -1, +1, -2, +2, ... *)
Place(d) == IF d = 0 THEN 1 ELSE IF d < 0 THEN 2 * Abs(d) ELSE 2 * d + 1

(* C8: verify tries the offsets in the order 0, -1, +1, -2, +2, ... up to  *)
(* the window and returns the first whose code is the normalized           *)
(* candidate: of several matching offsets the one of least |d|, the        *)
(* negative one on a tie, having generated no code past it.                *)
C8_NearestOffsetFirst ==
    (last.op = "verify" /\ last.threw = "" /\ last.code # <<>> /\ Hits # {})
      => /\ last.ok
         /\ last.delta # None
         /\ last.delta[1] \in Hits
         /\ \A d \in Hits : Place(last.delta[1]) <= Place(d)
         /\ last.gens = Place(last.delta[1])

(* Offsets -2 and +2 both match and neither 0, -1 nor +1 does: -2 is       *)
(* reported.                                                               *)
C8_Witness ==
    /\ last.op = "verify"
    /\ last.threw = ""
    /\ last.code # <<>>
    /\ Hits = {0 - 2, 2}
    /\ last.delta = Some(0 - 2)

(* C9: when normalizing the candidate yields the empty string, verify      *)
(* rejects before any code is generated, with ok = false and the "empty"   *)
(* reason, not the "no match" reason.                                      *)
C9_EmptyAfterNormalization ==
    (last.op = "verify" /\ last.threw = "" /\ normalizeToken(last.code) = <<>>)
      => /\ ~last.ok
         /\ last.gens = 0
         /\ last.reason = Some("Empty or non-string code")

(* C10: in every result of verify, ok = true exactly when delta is a       *)
(* number with |delta| <= window, ok = false exactly when delta is null,   *)
(* and reason is present exactly when ok = false.                          *)
C10_ResultShape ==
    (last.op = "verify" /\ last.threw = "")
      => /\ last.ok <=> (last.delta # None /\ Abs(last.delta[1]) <= last.window)
         /\ ~last.ok <=> (last.delta = None)
         /\ (last.reason # None) <=> ~last.ok

(* A verify accepted the code of the current step at window 0. *)
C10_Witness ==
    /\ last.op = "verify"
    /\ last.threw = ""
    /\ last.window = 0
    /\ last.ok
    /\ last.delta = Some(0)
    /\ last.reason = None

(* C11: verifyBool(candidate, window, timestamp) returns the ok of what    *)
(* verify returns for the same arguments on the same engine, and throws    *)
(* exactly when verify throws, with verify's error.                        *)
C11_VerifyBoolIsVerifyOk ==
    last.op = "verifyBool"
      => LET g == resolveAndParse(uri, envKey, cache) IN
         /\ last.threw = g.threw
         /\ g.threw = ""
              => last.ok = verify(g.totp[1], last.code, last.window, last.ts,
                                  last.clock).ok

C11_Witness ==
    /\ last.op = "verifyBool"
    /\ last.threw = ""
    /\ last.ok
    /\ last.code = Code287082

(* The result object of the last verify call. *)
LastResult == [ok |-> last.ok, delta |-> last.delta, reason |-> last.reason]

(* C12: the value OTP.verify(code, 1) returns is truthy exactly when the   *)
(* code is valid within the window, so that `if (!otp.verify(code, 1))`    *)
(* rejects an invalid code.                                                *)
C12_VerifyValueTruthyIffValid ==
    (last.op = "verify" /\ last.threw = "" /\ last.window = 1)
      => (ToBoolean(LastResult) <=> last.ok)

(* C13: on an engine whose configuration resolves and parses to a TOTP     *)
(* spec, verify throws for no candidate string, window or timestamp, and   *)
(* a candidate that matches at no offset of the window is returned as      *)
(* ok = false.                                                             *)
C13_VerifyNeverThrows ==
    (last.op = "verify" /\ resolveAndParse(uri, envKey, cache).threw = "")
      => /\ last.threw = ""
         /\ last.spec # None
         /\ (last.code = <<>> \/ Hits = {}) => (~last.ok /\ last.delta = None)

(* A six-digit candidate that is no code of the window was returned as a   *)
(* result, not thrown.                                                     *)
C13_Witness ==
    /\ last.op = "verify"
    /\ last.threw = ""
    /\ last.code = Code287082
    /\ last.window = MaxWindow
    /\ ~last.ok
    /\ last.reason = Some("Invalid or out-of-window token")

(* C14: when the configuration cannot be resolved or parsed, every         *)
(* getCode, verify and verifyBool call aborts with the error of the        *)
(* resolution or the parse, for every candidate, the empty one included:   *)
(* no code and no result is returned.                                      *)
C14_NoSpecNoAnswer ==
    LET g == resolveAndParse(uri, envKey, cache) IN
    (IsUse(last.op) /\ g.threw # "")
      => /\ last.threw = g.threw
         /\ last.spec = None
         /\ last.out = <<>>
         /\ ~last.ok
         /\ last.delta = None
         /\ last.reason = None
         /\ last.gens = 0
         /\ totp = None

(* A verify of the empty candidate threw on an engine without a spec. *)
C14_Witness ==
    /\ last.op = "verify"
    /\ last.code = <<>>
    /\ last.threw = "Missing environment variable"
    /\ totp = None

(* C15: the resolver fails with a configuration error whenever neither the *)
(* literal nor the key yields a non-empty string: whenever it returns, the *)
(* string it returns is non-empty, also when the stored value consists of  *)
(* whitespace only.                                                        *)
C15_ResolvedNonEmpty ==
    (made /\ resolved # None)
      => /\ resolved[1] = getUri(uri, envKey, cache)
         /\ resolved[1].threw = "" => resolved[1].val # <<>>
         /\ resolved[1].threw # ""
              => resolved[1].threw \in {"Missing environment variable",
                                        "OTP: No URI or envKey provided."}

(* The literal after trimming, empty when there is none. *)
Literal == IF uri = None THEN <<>> ELSE Trim(uri[1])

(* C16: when the literal is present and non-blank after trimming, the      *)
(* resolver returns that trimmed literal and does not consult the store;   *)
(* the key is looked up only when the literal is absent or blank, and then *)
(* it is looked up whenever there is a key.                                *)
C16_LiteralFirst ==
    resolved # None
      => /\ Literal # <<>>
              => resolved[1] = [threw |-> "", val |-> Literal, looked |-> FALSE]
         /\ resolved[1].looked => Literal = <<>>
         /\ (Literal = <<>> /\ envKey # None /\ envKey[1] # "")
              => resolved[1].looked

(* A source with a literal in blanks and a key whose value is another      *)
(* spec: the trimmed literal won and the store was not consulted.          *)
C16_Witness ==
    /\ uri = Some(<<" ", UriTotp1, " ">>)
    /\ envKey = Some(KEY)
    /\ cache[KEY] = Some(<<UriTotp6>>)
    /\ resolved = Some([threw |-> "", val |-> <<UriTotp1>>, looked |-> FALSE])
    /\ totp = Some(Totp1)

(* The errors getTOTP throws for a string URI.parse rejects. *)
MalformedErrors ==
    { InvalidUriError(m) : m \in {"Invalid URI format", "Invalid 'secret' parameter"} }

(* C17: a provisioning string of a non-TOTP (counter-based) type makes     *)
(* getTOTP, getCode, verify and verifyBool fail with the unsupported-type  *)
(* error, which is none of the errors of a malformed string, and the       *)
(* non-TOTP object is never stored in the cache.                           *)
C17_NonTotpRejected ==
    LET r == getUri(uri, envKey, cache) IN
    (made /\ r.threw = "" /\ URI_parse(r.val).kind = "HOTP")
      => /\ totp = None
         /\ (IsUse(last.op) \/ last.op = "getTOTP")
              => /\ last.threw = NotTotpError
                 /\ last.threw \notin MalformedErrors
                 /\ last.reparsed
                 /\ last.spec = None
                 /\ last.out = <<>>
                 /\ ~last.ok

(* getCode on an engine whose key holds an otpauth://hotp string threw the *)
(* unsupported-type error.                                                 *)
C17_Witness ==
    /\ cache[KEY] = Some(<<UriHotp>>)
    /\ envKey = Some(KEY)
    /\ last.op = "getCode"
    /\ last.threw = NotTotpError
    /\ totp = None

InvalidSecretError == InvalidUriError("Invalid 'secret' parameter")

(* C18: a provisioning string whose secret is not base32 raises no error   *)
(* at construction and none at refresh(), where nothing is resolved or     *)
(* parsed; every getCode, verify and verifyBool call on it fails with the  *)
(* invalid-secret error and returns no code and no result.                 *)
C18_BadSecretFailsAtUse ==
    (made /\ uri = Some(<<UriBadSecret>>))
      => /\ totp = None
         /\ last.op \in {"fromUri", "refresh"}
              => (last.threw = "" /\ ~last.reparsed /\ resolved = None)
         /\ IsUse(last.op)
              => /\ last.threw = InvalidSecretError
                 /\ last.reparsed
                 /\ last.spec = None
                 /\ last.out = <<>>
                 /\ ~last.ok
                 /\ last.reason = None

(* A getCode on such an engine, nothing cached yet, threw. *)
C18_Witness ==
    /\ uri = Some(<<UriBadSecret>>)
    /\ last.op = "getCode"
    /\ last.cyc = "new"
    /\ last.threw = InvalidSecretError
    /\ last.out = <<>>

(* The candidate without its whitespace and with its full-width digits     *)
(* replaced by ASCII digits.                                               *)
Strip(c) == SelectSeq(toAsciiDigits(c), NotWhitespace)

IsAsciiDigits(c) == \A i \in 1..Len(c) : c[i] \in 48..57

(* C19: verify(c, w, t) returns the result verify(c', w, t) returns, where *)
(* c' is c without surrounding and internal whitespace and with full-width *)
(* digits replaced by ASCII digits; normalization is idempotent and leaves *)
(* a string of ASCII digits unchanged.                                     *)
C19_NormalizationEquivalence ==
    (last.op = "verify" /\ last.threw = "")
      => LET r == verify(last.spec[1], Strip(last.code), last.window, last.ts,
                         last.clock)
         IN  /\ LastResult = [ok |-> r.ok, delta |-> r.delta, reason |-> r.reason]
             /\ normalizeToken(normalizeToken(last.code)) = normalizeToken(last.code)
             /\ IsAsciiDigits(last.code) => normalizeToken(last.code) = last.code

(* s is a completely parsed TOTP spec, the one URI.parse makes of what the *)
(* resolver returns for the engine's source.                               *)
ParsedFromResolver(s) ==
    LET r == getUri(uri, envKey, cache) IN
    /\ r.threw = ""
    /\ URI_parse(r.val).kind = "TOTP"
    /\ s = URI_parse(r.val).obj
    /\ DOMAIN s[1] = {"secret", "algorithm", "digits", "period"}

(* C20: in every state reachable by any interleaving of getTOTP, getCode,  *)
(* verify, verifyBool and refresh, the cache slot is empty or holds a      *)
(* completely parsed TOTP spec obtained from the resolver's output, and    *)
(* the spec a call worked with is such a spec.                             *)
C20_CacheEmptyOrParsedTotp ==
    /\ totp # None => ParsedFromResolver(totp)
    /\ last.spec # None => ParsedFromResolver(last.spec)
    /\ (last.op \in {"getTOTP", "getCode", "verify", "verifyBool"}
          /\ last.threw = "") => (last.spec # None /\ totp = last.spec)

(* The slot was filled, emptied by refresh() and filled again from a key   *)
(* whose value has a leading blank.                                        *)
C20_Witness ==
    /\ cache[KEY] = Some(<<" ", UriTotp1>>)
    /\ envKey = Some(KEY)
    /\ totp = Some(Totp1)
    /\ last.op = "getTOTP"
    /\ last.reparsed
    /\ gen # None

(* C21: every engine made by fromEnv or fromUri has exactly one of uri and *)
(* envKey set, and no step after the construction (getTOTP, getCode,       *)
(* verify, verifyBool, refresh, a change of the environment) changes       *)
(* either field.                                                           *)
C21_OneSourceNeverChanged ==
    [][ /\ made' => ((uri' = None) # (envKey' = None))
        /\ made => (uri' = uri /\ envKey' = envKey) ]_vars

(* An engine made from a literal in blanks that has parsed it, been        *)
(* refreshed and used again still holds the literal as it was given.       *)
C21_Witness ==
    /\ uri = Some(<<" ", UriTotp1, " ">>)
    /\ envKey = None
    /\ totp = Some(Totp1)
    /\ gen # None
    /\ last.op = "verify"
    /\ last.reparsed

(* C22: Env lookups are consistent for the lifetime of the process: the    *)
(* outcome of an Env.get, Env.getString or Env.has call, made before or    *)
(* after a write to process.env, is the outcome the same call has in every *)
(* later state, whatever process.env holds by then: the outcome on the     *)
(* snapshot.                                                               *)
C22_LookupsReadSnapshot ==
    /\ envLast.op = "get"
         => LET e == Env_getParsed(cache, envLast.key, envLast.required,
                                  envLast.def, envLast.trim, envLast.parser)
            IN envLast.threw = e.threw /\ envLast.val = e.val
    /\ envLast.op = "getString"
         => LET e == Env_getString(cache, envLast.key, envLast.required,
                                  envLast.def)
            IN envLast.threw = e.threw /\ envLast.val = e.val
    /\ envLast.op = "has" => envLast.ok = Env_has(cache, envLast.key)

(* After process.env[KEY] was changed from " 7" to "42", Env.getString     *)
(* returned "7".                                                           *)
C22_Witness ==
    /\ cache[KEY] = Some(<<" ", "7">>)
    /\ processEnv[KEY] = Some(<<"4", "2">>)
    /\ envLast.op = "getString"
    /\ envLast.key = KEY
    /\ envLast.at > 0
    /\ envLast.val = Some(<<"7">>)

(* C23: when the key is missing or empty and required is false, Env.get    *)
(* returns the supplied default, and when a parser is provided the value   *)
(* returned is the parser's result on that default, as it is for a present *)
(* value.                                                                  *)
C23_DefaultRefinedByParser ==
    (envLast.op = "get" /\ ~Env_has(cache, envLast.key) /\ ~envLast.required)
      => /\ envLast.threw = ""
         /\ envLast.parser = "none" => envLast.val = envLast.def
         /\ (envLast.parser = "number" /\ envLast.def.t = "string")
              => envLast.val = NumberParser(envLast.def.s).val

(* C24: for every key, Env.get with required = true throws the             *)
(* missing-variable error exactly when Env.has(key) is false;              *)
(* Env.require(k1..kn) throws exactly when Env.has(ki) is false for some   *)
(* i, and names every such key; once Env.require has passed for a key,     *)
(* Env.getString of it does not throw.                                     *)
C24_RequiredThrowsIffNotHas ==
    /\ (envLast.op \in {"get", "getString", "getNumber"} /\ envLast.required)
         => ((envLast.threw = "Missing environment variable")
               <=> ~Env_has(cache, envLast.key))
    /\ envLast.op = "require"
         => /\ (envLast.threw # "")
                 <=> (\E i \in 1..Len(envLast.keys) :
                        ~Env_has(cache, envLast.keys[i]))
            /\ \A i \in 1..Len(envLast.keys) :
                 (\E j \in 1..Len(envLast.missing) :
                    envLast.missing[j] = envLast.keys[i])
                   <=> ~Env_has(cache, envLast.keys[i])
    /\ (envLast.op = "getString" /\ envLast.key \in passed)
         => envLast.threw = ""

IsCall(op) == IsUse(op) \/ op = "getTOTP"

(* C25: a getTOTP, getCode, verify or verifyBool call that fails in        *)
(* resolution or parsing leaves the engine as it was (cache still empty,   *)
(* uri and envKey untouched), and the call that follows it resolves and    *)
(* parses again: it ends as a fresh resolve-and-parse ends, not with a     *)
(* remembered failure or a stale spec.                                     *)
C25_FailedCallLeavesEngine ==
    [][ /\ (IsCall(last'.op) /\ last'.threw # "")
             => (totp = None /\ totp' = None /\ uri' = uri /\ envKey' = envKey)
        /\ (IsCall(last.op) /\ last.threw # "" /\ IsCall(last'.op))
             => LET r == resolveAndParse(uri, envKey, cache) IN
                /\ last'.threw = r.threw
                /\ last'.reparsed = r.reparsed
                /\ resolved' = Some(getUri(uri, envKey, cache)) ]_vars

(* The second getCode in a row on a key that holds an otpauth://hotp       *)
(* string parsed again and failed again.                                   *)
C25_Witness ==
    /\ failed >= 2
    /\ cache[KEY] = Some(<<UriHotp>>)
    /\ envKey = Some(KEY)
    /\ last.op = "getCode"
    /\ last.reparsed
    /\ last.threw = NotTotpError
    /\ totp = None

(* C26: refresh() never throws and neither resolves nor parses, also on    *)
(* an engine whose configuration is missing or malformed: it empties the   *)
(* cache and leaves uri and envKey alone.  On an engine whose cache is     *)
(* empty it changes no field, so that a refresh() after a refresh() leaves *)
(* the engine as the first left it.                                        *)
C26_RefreshOnlyClears ==
    [][ last'.op = "refresh"
          => /\ last'.threw = ""
             /\ ~last'.reparsed
             /\ resolved' = None
             /\ totp' = None
             /\ uri' = uri /\ envKey' = envKey
             /\ (totp = None \/ last.op = "refresh")
                  => <<uri, envKey, totp>>' = <<uri, envKey, totp>> ]_vars

(* refresh() returned on an engine whose key is not in the environment. *)
C26_Witness ==
    /\ cache[KEY] = None
    /\ envKey = Some(KEY)
    /\ uri = None
    /\ last.op = "refresh"
    /\ last.threw = ""
    /\ resolved = None
    /\ totp = None

(* What the older verify returns for the arguments of the last verify. *)
LegacyOfLast ==
    legacyVerify(last.spec[1], last.code, last.window, last.ts, last.clock)

(* C27: for the same spec, window and timestamp and every non-empty        *)
(* candidate that is already normalized, the ok of verify is the boolean   *)
(* the older verify returns; and on any candidate the older verify         *)
(* accepts, verify accepts too.                                            *)
C27_RefinesLegacyVerify ==
    (last.op = "verify" /\ last.threw = "")
      => /\ (last.code # <<>> /\ normalizeToken(last.code) = last.code)
              => last.ok = LegacyOfLast
         /\ LegacyOfLast => last.ok

(* Both accepted the code of the step after the instant, at window 2. *)
C27_Witness ==
    /\ last.op = "verify"
    /\ last.threw = ""
    /\ last.window = 2
    /\ last.code = Code287082
    /\ last.delta = Some(1)
    /\ last.ok
    /\ LegacyOfLast

====
